---- MODULE Spec2Model ----
(***************************************************************************)
(* Model of oerplib's model pool (oerplib/pool.py, ModelPool) and of the   *)
(* per-entity model proxy (oerplib/service/osv/osv.py, OSV).               *)
(*                                                                         *)
(* The remote server is a black box: every remote call made by a handler   *)
(* draws its outcome (a result or a failure) from a small set.             *)
(***************************************************************************)
EXTENDS Naturals, Sequences, FiniteSets, TLC

VARIABLES
    config,                   \* oerp.config: compatible, auto_context
    factories_by_osv_name,    \* ModelPool._factories_by_osv_name
    factories_by_osv_class,   \* ModelPool._factories_by_osv_class
    proxies,                  \* every proxy object constructed so far
    nproxy,                   \* number of proxy constructions attempted
    record,                   \* the browse record the caller holds
    gen,                      \* the generator returned by browse(list)
    fields_get_calls,         \* history: fields_get calls issued per entity
    fields_get_failed,        \* history: fields_get calls that failed
    invalidated,              \* history: a refresh or a removal hit the entity
    last                      \* history: the last operation and its calls

vars == <<config, factories_by_osv_name, factories_by_osv_class, proxies,
          nproxy, record, gen, fields_get_calls,
          fields_get_failed, invalidated, last>>

----------------------------------------------------------------------------
(* Bounds of the model *)

MaxProxies == 2
MaxIds == 2

(* Universe of inputs *)

Names == {"res.partner", "res.log"}
FieldNames == {"name", "partner_id"}
IdSet == {0, 42}                 \* 0 is a falsy id: a record with no id
Contexts == {"None"}             \* the context argument: the default, None
AmbientContext == "ambient"      \* oerp.context

NoProxy == 0

----------------------------------------------------------------------------
(* Values exchanged with the server.  One record shape for every value:    *)
(* t is the Python type, i an integer part, s a string part.               *)

VFalse == [t |-> "false", i |-> 0, s |-> ""]
VText(str) == [t |-> "text", i |-> 0, s |-> str]
VInt(n) == [t |-> "int", i |-> n, s |-> ""]
VPair(n, label) == [t |-> "pair", i |-> n, s |-> label]
\* in place of a value: evaluating the expression raised the error e
VRaise(e) == [t |-> "raise", i |-> 0, s |-> e]

\* Python truthiness of a value
Truthy(v) ==
    CASE v.t = "false" -> FALSE
      [] v.t = "text" -> v.s # ""
      [] v.t = "int" -> v.i # 0
      [] OTHER -> TRUE

EmptyDict == [f \in {} |-> VFalse]

\* d.update(e)
Update(d, e) ==
    [f \in (DOMAIN d) \cup (DOMAIN e) |-> IF f \in DOMAIN e THEN e[f] ELSE d[f]]

\* every dict whose keys are among ks, the value of key k drawn from vals[k]
Dicts(ks, vals) ==
    UNION {{d \in [S -> UNION {vals[k] : k \in S}] :
                \A k \in S : d[k] \in vals[k]} : S \in SUBSET ks}

----------------------------------------------------------------------------
(* The remote schemas fields_get may return: field name -> field data.     *)

FieldData(type, readonly) == [type |-> type, readonly |-> readonly]

SchemaWithName ==
    [f \in {"name", "partner_id"} |->
        IF f = "name" THEN FieldData("text", FALSE)
                      ELSE FieldData("many2one", FALSE)]

SchemaNoName ==
    [f \in {"id", "partner_id"} |->
        IF f = "id" THEN FieldData("integer", TRUE)
                    ELSE FieldData("many2one", FALSE)]

\* the server's schema of each entity
RemoteSchema(osv_name) ==
    IF osv_name = "res.partner" THEN SchemaWithName ELSE SchemaNoName

\* outcomes of the fields_get call of an entity: a failure or its schema
FieldsGetOutcomes(osv_name) ==
    {[ok |-> ok, schema |-> RemoteSchema(osv_name)] : ok \in BOOLEAN}

\* OSV.fields_reserved
fields_reserved == {"id", "__oerp__", "__osv__", "__data__"}

\* fields.generate_field: the descriptor of one field
generate_field(field_name, field_data) ==
    [name |-> field_name, type |-> field_data.type,
     readonly |-> field_data.readonly]

\* a class generation that adds no name field
generate_browse_class_as_remote(fields_get) ==
    LET kept == {f \in DOMAIN fields_get : f \notin fields_reserved}
    IN  [f \in kept |-> generate_field(f, fields_get[f])]

\* OSV._generate_browse_class: cls.__osv__['columns'] built from fields_get
generate_browse_class(fields_get) ==
    LET kept == {f \in DOMAIN fields_get : f \notin fields_reserved}
        cls_fields == [f \in kept |-> generate_field(f, fields_get[f])]
    IN  IF "name" \notin DOMAIN cls_fields
        THEN Update(cls_fields,
                    [name |-> generate_field("name", FieldData("text", TRUE))])
        ELSE cls_fields

NoColumns == [f \in {} |-> generate_field("", FieldData("", FALSE))]

\* A proxy object (the pool's Factory, an OSV).  Its generated record class
\* is identified by the proxy's own index: each construction makes a new one.
NoProxyObj ==
    [name |-> "", state |-> "none", columns |-> NoColumns, class_fields |-> {}]

\* OSV.__init__: the proxy object, from the answer to the fields_get call
\* _generate_browse_class makes
OSV_init(osv_name, out) ==
    IF out.ok
    THEN [name |-> osv_name, state |-> "ok",
          columns |-> generate_browse_class(out.schema), class_fields |-> {}]
    ELSE [name |-> osv_name, state |-> "failed", columns |-> NoColumns,
          class_fields |-> {}]

\* factory.Factory(oerp, osv_name): constructs the proxy of the entity
Factory(osv_name, out) == OSV_init(osv_name, out)

\* facto.osv['class'] of the proxy with index p
ClassOf(p) == p

----------------------------------------------------------------------------
(* Remote calls.  An argument is one record shape for every kind.          *)

NoKwargs == [k \in {} |-> ""]

ArgIds(ids) == [k |-> "ids", ids |-> ids, d |-> EmptyDict, s |-> "", fs |-> {}]
ArgDict(d) == [k |-> "dict", ids |-> <<>>, d |-> d, s |-> "", fs |-> {}]
ArgCtx(c) == [k |-> "ctx", ids |-> <<>>, d |-> EmptyDict, s |-> c, fs |-> {}]
ArgFields(fs) ==
    [k |-> "fields", ids |-> <<>>, d |-> EmptyDict, s |-> "", fs |-> fs]
ArgTok(s) == [k |-> "tok", ids |-> <<>>, d |-> EmptyDict, s |-> s, fs |-> {}]
ArgNone == [k |-> "none", ids |-> <<>>, d |-> EmptyDict, s |-> "", fs |-> {}]
\* the search domain []: no filter
ArgNoFilter ==
    [k |-> "domain", ids |-> <<>>, d |-> EmptyDict, s |-> "", fs |-> {}]

\* oerp.execute(name, method, *args)
execute(name, method, args) ==
    [fn |-> "execute", model |-> name, method |-> method, args |-> args,
     kwargs |-> NoKwargs]

\* oerp.execute_kw(name, method, args, kwargs)
execute_kw(name, method, args, kwargs) ==
    [fn |-> "execute_kw", model |-> name, method |-> method, args |-> args,
     kwargs |-> kwargs]

\* oerp.search(name, count=True)
oerp_search_count(name) ==
    [fn |-> "search", model |-> name, method |-> "search", args |-> <<>>,
     kwargs |-> [count |-> "True"]]

\* the calls OSV.__init__ issues: _generate_browse_class calls fields_get
OSV_init_calls(osv_name) == <<execute(osv_name, "fields_get", <<>>)>>

\* the fields_get calls among calls, tallied per entity
Tally(count, calls) ==
    [n \in Names |->
        count[n] + Cardinality({i \in DOMAIN calls :
                                  /\ calls[i].method = "fields_get"
                                  /\ calls[i].model = n})]

\* a forwarding that never refuses keyword arguments
rpc_method_unchecked(name, method, args, kwargs) ==
    IF config.compatible
    THEN [err |-> "", calls |-> <<execute(name, method, args)>>]
    ELSE [err |-> "", calls |-> <<execute_kw(name, method, args, kwargs)>>]

\* a forwarding that, with auto_context, sets the ambient context whatever
\* the caller passed
rpc_method_ambient(name, method, args, kwargs) ==
    IF config.compatible
    THEN IF DOMAIN kwargs # {}
         THEN [err |-> "RPCError:NamedParameters", calls |-> <<>>]
         ELSE [err |-> "", calls |-> <<execute(name, method, args)>>]
    ELSE LET kw == IF config.auto_context
                   THEN Update(kwargs, [context |-> AmbientContext])
                   ELSE kwargs
         IN  [err |-> "", calls |-> <<execute_kw(name, method, args, kw)>>]

\* OSV.__getattr__(method)(*args, **kwargs): the error raised before any
\* call, or the one remote call issued
rpc_method(name, method, args, kwargs) ==
    IF config.compatible
    THEN IF DOMAIN kwargs # {}
         THEN [err |-> "RPCError:NamedParameters", calls |-> <<>>]
         ELSE [err |-> "", calls |-> <<execute(name, method, args)>>]
    ELSE LET kw == IF config.auto_context /\ "context" \notin DOMAIN kwargs
                   THEN Update(kwargs, [context |-> AmbientContext])
                   ELSE kwargs
         IN  [err |-> "", calls |-> <<execute_kw(name, method, args, kw)>>]

----------------------------------------------------------------------------
(* The record of the last operation *)

\* what the caller passed to a forwarded method
Input(method, args, kwargs) ==
    [method |-> method, args |-> args, kwargs |-> kwargs]

NoInput == Input("", <<>>, NoKwargs)

\* a pool operation: flag is the refresh argument (for a reset, whether the
\* record had fields updated), prev the proxy cached before the call (or the
\* class looked up), res the proxy returned, answers what the server
\* answered to each call
Op(op, name, flag, prev, res, err, calls, answers) ==
    [op |-> op, name |-> name, flag |-> flag, prev |-> prev, res |-> res,
     err |-> err, calls |-> calls, answers |-> answers, inp |-> NoInput]

\* a proxy operation: res is the proxy
RecOp(op, p, err, calls, answers) ==
    [op |-> op, name |-> proxies[p].name, flag |-> FALSE, prev |-> NoProxy,
     res |-> p, err |-> err, calls |-> calls, answers |-> answers,
     inp |-> NoInput]

\* a forwarded method call: inp is what the caller passed
InvokeOp(p, inp, err, calls, answers) ==
    [op |-> "invoke", name |-> proxies[p].name, flag |-> FALSE,
     prev |-> NoProxy, res |-> p, err |-> err, calls |-> calls,
     answers |-> answers, inp |-> inp]

\* the answers to the calls issued: one per call, in order; an answer is
\* an outcome, its kind k and the dict (or schema) d it carries
Answers(calls, outs) == SubSeq(outs, 1, Len(calls))

----------------------------------------------------------------------------
(* ModelPool *)

\* a get that constructs a proxy whatever the pool holds
must_construct_always(cached, refresh) == TRUE

\* ModelPool.get: the conditions under which a new Factory is constructed
must_construct(cached, refresh) == cached = NoProxy \/ refresh

\* a get that caches the Factory even when its construction raised
installs_always(out) == TRUE

\* ModelPool.get: the Factory is stored once its constructor has returned
installs(out) == out.ok

\* ModelPool.get(osv_name, refresh)
get(osv_name, refresh, out) ==
    LET cached == factories_by_osv_name[osv_name]
        construct == must_construct(cached, refresh)
        facto == nproxy + 1
        calls == OSV_init_calls(osv_name)
        answer == [k |-> IF out.ok THEN "ok" ELSE "fail", d |-> EmptyDict]
    IN  IF ~construct
        THEN /\ last' = Op("get", osv_name, refresh, cached, cached, "", <<>>,
                          <<>>)
             /\ UNCHANGED <<factories_by_osv_name, factories_by_osv_class,
                            proxies, nproxy, fields_get_calls,
                            fields_get_failed, invalidated>>
        ELSE /\ nproxy < MaxProxies
             /\ nproxy' = facto
             /\ proxies' = [proxies EXCEPT ![facto] = Factory(osv_name, out)]
             /\ fields_get_calls' = Tally(fields_get_calls, calls)
             /\ invalidated' =
                    [invalidated EXCEPT
                        ![osv_name] = @ \/ (refresh /\ cached # NoProxy)]
             /\ IF ~installs(out)
                THEN /\ fields_get_failed' =
                            [fields_get_failed EXCEPT ![osv_name] = @ + 1]
                     /\ last' = Op("get", osv_name, refresh, cached, NoProxy,
                                   "Error", calls, <<answer>>)
                     /\ UNCHANGED <<factories_by_osv_name,
                                    factories_by_osv_class>>
                ELSE /\ UNCHANGED fields_get_failed
                     /\ factories_by_osv_name' =
                            [factories_by_osv_name EXCEPT ![osv_name] = facto]
                     /\ factories_by_osv_class' =
                            IF cached = NoProxy
                            THEN [factories_by_osv_class
                                      EXCEPT ![ClassOf(facto)] = facto]
                            ELSE factories_by_osv_class
                     /\ last' = Op("get", osv_name, refresh, cached, facto,
                                   "", calls, <<answer>>)

PoolGet ==
    /\ \E osv_name \in Names, refresh \in BOOLEAN :
            \E out \in FieldsGetOutcomes(osv_name) : get(osv_name, refresh, out)
    /\ UNCHANGED <<config, record, gen>>

\* ModelPool.get_by_class(osv)
get_by_class(osv) ==
    LET facto == factories_by_osv_class[osv]
    IN  last' = Op("get_by_class", "", FALSE, osv, facto,
                   IF facto = NoProxy THEN "KeyError" ELSE "", <<>>, <<>>)

PoolGetByClass ==
    /\ \E osv \in 1..MaxProxies :
            proxies[osv].state = "ok" /\ get_by_class(osv)
    /\ UNCHANGED <<config, factories_by_osv_name, factories_by_osv_class,
                   proxies, nproxy, record, gen, fields_get_calls,
                   fields_get_failed, invalidated>>

\* a removal that clears the proxy and leaves it in the pool
delitem_clear_only(osv_name) ==
    LET cached == factories_by_osv_name[osv_name]
    IN  /\ last' = Op("del", osv_name, FALSE, cached, NoProxy,
                      IF cached = NoProxy THEN "KeyError" ELSE "", <<>>, <<>>)
        /\ UNCHANGED <<factories_by_osv_name, invalidated>>

\* ModelPool.__delitem__(osv_name)
delitem(osv_name) ==
    LET cached == factories_by_osv_name[osv_name]
    IN  IF cached = NoProxy
        THEN /\ last' = Op("del", osv_name, FALSE, cached, NoProxy,
                           "KeyError", <<>>, <<>>)
             /\ UNCHANGED <<factories_by_osv_name, invalidated>>
        ELSE /\ factories_by_osv_name' =
                    [factories_by_osv_name EXCEPT ![osv_name] = NoProxy]
             /\ invalidated' = [invalidated EXCEPT ![osv_name] = TRUE]
             /\ last' = Op("del", osv_name, FALSE, cached, NoProxy, "", <<>>,
                          <<>>)

PoolDel ==
    /\ \E osv_name \in Names : delitem(osv_name)
    /\ UNCHANGED <<config, factories_by_osv_class, proxies, nproxy,
                   record, gen, fields_get_calls, fields_get_failed>>

\* ModelPool.__iter__(): the entity names of the pool
pool_iter == {n \in Names : factories_by_osv_name[n] # NoProxy}

\* ModelPool.__len__()
pool_len == Cardinality(pool_iter)

----------------------------------------------------------------------------
(* Browse records *)

\* What the server may answer to read and default_get, and what the caller
\* may assign to a field
ReadVals ==
    [f \in FieldNames |->
        IF f = "name" THEN {VText("Acme")} ELSE {VPair(7, "Acme Corp")}]

DefaultVals ==
    [f \in FieldNames |->
        IF f = "name" THEN {VText("Acme")} ELSE {VPair(7, "Acme Corp")}]

AssignVals ==
    [f \in FieldNames |->
        IF f = "name" THEN {VText("Zed")}
                      ELSE {VFalse, VPair(9, "Other"), VInt(9)}]

Outcome(k, d) == [k |-> k, d |-> d]

\* outcomes of read([id], None, context) on an entity: a failure, False, [],
\* [False] or one dict of some of the fields of the server's schema
ReadOutcomesOf ==
    [n \in Names |->
        {Outcome(k, EmptyDict) : k \in {"fail", "false", "empty", "falseentry"}}
            \cup {Outcome("dict", d) :
                    d \in Dicts((DOMAIN RemoteSchema(n)) \cap FieldNames,
                                ReadVals) \ {EmptyDict}}]

ReadOutcomes(p) == ReadOutcomesOf[proxies[p].name]

\* outcomes of default_get(columns, context) on an entity: a failure or a
\* dict of defaults for some of the columns asked
DefaultOutcomesOf ==
    [n \in Names |->
        {Outcome("fail", EmptyDict)}
            \cup {Outcome("dict", d) :
                    d \in Dicts(DOMAIN generate_browse_class(RemoteSchema(n)),
                                DefaultVals)}]

DefaultOutcomes(p) == DefaultOutcomesOf[proxies[p].name]

\* outcomes of the call a refresh of a record with this id makes
RefreshOutcomes(p, id) ==
    IF id # 0 THEN ReadOutcomes(p) ELSE DefaultOutcomes(p)

\* outcomes of write, unlink and of a forwarded method
CallOutcomes == {Outcome("fail", EmptyDict), Outcome("ok", EmptyDict)}

\* A record: cls is the proxy whose generated class it is an instance of
\* (0: the caller holds no record), raw_false tells raw_data is False.
NoRecord ==
    [cls |-> NoProxy, id |-> 0, raw_false |-> FALSE, raw_data |-> EmptyDict,
     fields_updated |-> {}, vals |-> EmptyDict, context |-> "{}"]

\* self._browse_class(ids): a new instance, not refreshed yet
browse_class(p, id) == [NoRecord EXCEPT !.cls = p, !.id = id]

\* a reset that empties fields_updated and leaves the field values alone
reset_keeping_values(p, obj) ==
    IF obj.raw_false
    THEN [obj |-> [obj EXCEPT !.fields_updated = {}], err |-> "TypeError",
          cls |-> {}]
    ELSE [obj |-> [obj EXCEPT !.fields_updated = {}], err |-> "",
          cls |-> (DOMAIN proxies[p].columns) \cap (DOMAIN obj.raw_data)]

\* OSV._reset(obj): the record afterwards, the error raised, and cls, the
\* fields whose descriptor it set on the class of the record
reset(p, obj) ==
    LET obj1 == [obj EXCEPT !.fields_updated = {}]
        columns == proxies[p].columns
    IN  IF obj.raw_false
        THEN [obj |-> obj1, err |-> "TypeError", cls |-> {}]
        ELSE LET loaded == (DOMAIN columns) \cap (DOMAIN obj.raw_data)
             IN  [obj |-> [obj1 EXCEPT !.vals =
                              Update(@, [f \in loaded |-> obj.raw_data[f]])],
                  err |-> "", cls |-> loaded]

\* a refresh that leaves out the columns default_get did not answer
blank_row_empty(columns) == EmptyDict

\* OSV._refresh, no id: raw_data with every column set to False
blank_row(columns) == [f \in DOMAIN columns |-> VFalse]

\* OSV._refresh(obj, context), the remote call answering out
refresh(p, obj, context, out) ==
    LET ctx == IF context = "None" THEN "{}" ELSE context
        obj1 == [obj EXCEPT !.context = ctx]
        name == proxies[p].name
        columns == proxies[p].columns
    IN  IF obj.id # 0
        THEN LET r == IF config.compatible
                      THEN rpc_method(name, "read",
                               <<ArgIds(<<obj.id>>), ArgNone, ArgCtx(ctx)>>,
                               NoKwargs)
                      ELSE rpc_method(name, "read",
                               <<ArgIds(<<obj.id>>), ArgNone>>,
                               [context |-> ctx])
                 raise(o, e) ==
                     [obj |-> o, err |-> e, calls |-> r.calls, cls |-> {}]
             IN  CASE r.err # "" -> raise(obj1, r.err)
                   [] out.k = "fail" -> raise(obj1, "Error")
                   [] out.k = "false" -> raise(obj1, "TypeError")
                   [] out.k = "empty" -> raise(obj1, "IndexError")
                   [] out.k = "falseentry" ->
                        raise([obj1 EXCEPT !.raw_false = TRUE,
                                           !.raw_data = EmptyDict],
                              "RPCError:NotFound")
                   [] OTHER ->
                        LET rs == reset(p, [obj1 EXCEPT !.raw_false = FALSE,
                                                        !.raw_data = out.d])
                        IN  [obj |-> rs.obj, err |-> rs.err,
                             calls |-> r.calls, cls |-> rs.cls]
        ELSE LET r == IF config.compatible
                      THEN rpc_method(name, "default_get",
                               <<ArgFields(DOMAIN columns), ArgCtx(ctx)>>,
                               NoKwargs)
                      ELSE rpc_method(name, "default_get",
                               <<ArgFields(DOMAIN columns)>>,
                               [context |-> ctx])
             IN  IF r.err # "" \/ out.k = "fail"
                 THEN [obj |-> obj1,
                       err |-> IF r.err # "" THEN r.err ELSE "Error",
                       calls |-> r.calls, cls |-> {}]
                 ELSE LET blank == blank_row(columns)
                          rs == reset(p, [obj1 EXCEPT
                                            !.raw_false = FALSE,
                                            !.raw_data = Update(blank, out.d)])
                      IN  [obj |-> rs.obj, err |-> rs.err,
                           calls |-> r.calls, cls |-> rs.cls]

\* a write that sends the value of a many2one field as it is held
many2one_value_as_held(field_value) == field_value

\* the value _write_record sends for a many2one field:
\* field_value and field_value[0].  A falsy value is sent as it is; any
\* other value is indexed: a pair gives its id, a text its first character,
\* and an integer cannot be indexed, which raises TypeError
many2one_value(field_value) ==
    IF ~Truthy(field_value)
    THEN field_value
    ELSE CASE field_value.t = "pair" -> VInt(field_value.i)
           [] field_value.t = "text" -> VText(SubSeq(field_value.s, 1, 1))
           [] OTHER -> VRaise("TypeError")

\* the payload _write_record builds from the fields updated
write_vals(p, obj) ==
    LET columns == proxies[p].columns
        sent == obj.fields_updated \cap (DOMAIN obj.raw_data)
    IN  [f \in sent |->
            IF columns[f].type = "many2one"
            THEN many2one_value(obj.vals[f])
            ELSE obj.vals[f]]

\* a write that forgets the fields updated when the call fails
write_error_clearing(obj) == [obj EXCEPT !.fields_updated = {}]

\* OSV._write_record, except error.Error: the record when write raises
write_error(obj) == obj

\* a write that returns once the write call has answered, without the
\* refresh
write_record_no_refresh(p, obj, context, wout, rout) ==
    LET name == proxies[p].name
        vals == write_vals(p, obj)
        w == IF config.compatible
             THEN rpc_method(name, "write",
                      <<ArgIds(<<obj.id>>), ArgDict(vals),
                        ArgCtx(context)>>, NoKwargs)
             ELSE rpc_method(name, "write",
                      <<ArgIds(<<obj.id>>), ArgDict(vals)>>,
                      [context |-> context])
    IN  [obj |-> obj,
         err |-> IF w.err # "" THEN w.err
                 ELSE IF wout.k = "fail" THEN "Error" ELSE "",
         calls |-> w.calls, cls |-> {}]

\* OSV._write_record(obj, context): wout answers write, rout the read
write_record(p, obj, context, wout, rout) ==
    IF obj.raw_false /\ obj.fields_updated # {}
    THEN [obj |-> obj, err |-> "TypeError", calls |-> <<>>, cls |-> {}]
    ELSE LET name == proxies[p].name
             vals == write_vals(p, obj)
             w == IF config.compatible
                  THEN rpc_method(name, "write",
                           <<ArgIds(<<obj.id>>), ArgDict(vals),
                             ArgCtx(context)>>, NoKwargs)
                  ELSE rpc_method(name, "write",
                           <<ArgIds(<<obj.id>>), ArgDict(vals)>>,
                           [context |-> context])
         IN  IF \E f \in DOMAIN vals : vals[f].t = "raise"
             THEN [obj |-> obj, err |-> "TypeError", calls |-> <<>>,
                   cls |-> {}]
             ELSE IF w.err # "" \/ wout.k = "fail"
             THEN [obj |-> write_error(obj),
                   err |-> IF w.err # "" THEN w.err ELSE "Error",
                   calls |-> w.calls, cls |-> {}]
             ELSE LET rf == refresh(p, obj, context, rout)
                  IN  [obj |-> rf.obj, err |-> rf.err,
                       calls |-> w.calls \o rf.calls, cls |-> rf.cls]

\* an unlink that passes the context by keyword in both modes
unlink_record_keyword(p, obj, context, out) ==
    LET u == rpc_method(proxies[p].name, "unlink", <<ArgIds(<<obj.id>>)>>,
                        [context |-> context])
    IN  [obj |-> obj,
         err |-> IF u.err # "" THEN u.err
                 ELSE IF out.k = "fail" THEN "Error" ELSE "",
         calls |-> u.calls]

\* OSV._unlink_record(obj, context)
unlink_record(p, obj, context, out) ==
    LET name == proxies[p].name
        u == IF config.compatible
             THEN rpc_method(name, "unlink",
                      <<ArgIds(<<obj.id>>), ArgCtx(context)>>, NoKwargs)
             ELSE rpc_method(name, "unlink", <<ArgIds(<<obj.id>>)>>,
                      [context |-> context])
    IN  [obj |-> obj,
         err |-> IF u.err # "" THEN u.err
                 ELSE IF out.k = "fail" THEN "Error" ELSE "",
         calls |-> u.calls]

\* OSV.browse(ids, context) with a single id
browse(p, id, context, out) == refresh(p, browse_class(p, id), context, out)

----------------------------------------------------------------------------
(* The operations of a caller on proxies and records *)

\* the proxies a caller may hold: every one whose construction succeeded
Usable(p) == proxies[p].state = "ok"

Held == record.cls # NoProxy

PoolVars == <<factories_by_osv_name, factories_by_osv_class, proxies, nproxy,
              fields_get_failed, invalidated>>

\* the pool but for the proxies, whose classes _reset changes
IndexVars == <<factories_by_osv_name, factories_by_osv_class, nproxy,
               fields_get_failed, invalidated>>

\* setattr(obj.__class__, field.name, field) of _reset: the proxies once
\* the class of proxy p has the descriptors of the fields cls
setattr_class(p, cls) ==
    [proxies EXCEPT ![p].class_fields = @ \cup cls]

\* obj = proxy.browse(id, context): the caller keeps the record returned
Browse ==
    /\ \E p \in 1..MaxProxies, id \in IdSet, context \in Contexts :
            /\ Usable(p)
            /\ \E out \in RefreshOutcomes(p, id) :
                LET r == browse(p, id, context, out)
                IN  /\ record' = IF r.err = "" THEN r.obj ELSE record
                    /\ last' = [RecOp("browse", p, r.err, r.calls,
                                     Answers(r.calls, <<out>>))
                                EXCEPT !.inp = Input("", <<ArgIds(<<id>>)>>,
                                                     NoKwargs)]
                    /\ fields_get_calls' = Tally(fields_get_calls, r.calls)
                    /\ proxies' = setattr_class(p, r.cls)
    /\ UNCHANGED <<config, IndexVars, gen>>

\* refresh of the record the caller holds
Refresh ==
    /\ Held
    /\ \E context \in Contexts, out \in RefreshOutcomes(record.cls, record.id) :
            LET r == refresh(record.cls, record, context, out)
            IN  /\ record' = r.obj
                /\ last' = RecOp("refresh", record.cls, r.err, r.calls,
                                Answers(r.calls, <<out>>))
                /\ fields_get_calls' = Tally(fields_get_calls, r.calls)
                /\ proxies' = setattr_class(record.cls, r.cls)
    /\ UNCHANGED <<config, IndexVars, gen>>

\* reset of the record the caller holds
Reset ==
    /\ Held
    /\ LET r == reset(record.cls, record)
       IN  /\ record' = r.obj
           /\ last' = [RecOp("reset", record.cls, r.err, <<>>, <<>>)
                          EXCEPT !.flag = record.fields_updated # {}]
           /\ fields_get_calls' = Tally(fields_get_calls, <<>>)
           /\ proxies' = setattr_class(record.cls, r.cls)
    /\ UNCHANGED <<config, IndexVars, gen>>

\* write of the record the caller holds
WriteRecord ==
    /\ Held
    /\ \E context \in Contexts, wout \in CallOutcomes :
        \E rout \in IF wout.k = "fail" THEN {wout}
                    ELSE RefreshOutcomes(record.cls, record.id) :
            LET r == write_record(record.cls, record, context, wout, rout)
            IN  /\ record' = r.obj
                /\ last' = RecOp("write", record.cls, r.err, r.calls,
                                Answers(r.calls, <<wout, rout>>))
                /\ fields_get_calls' = Tally(fields_get_calls, r.calls)
                /\ proxies' = setattr_class(record.cls, r.cls)
    /\ UNCHANGED <<config, IndexVars, gen>>

\* unlink of the record the caller holds
UnlinkRecord ==
    /\ Held
    /\ \E context \in Contexts, out \in CallOutcomes :
            LET r == unlink_record(record.cls, record, context, out)
            IN  /\ last' = RecOp("unlink", record.cls, r.err, r.calls,
                                    Answers(r.calls, <<out>>))
                /\ fields_get_calls' = Tally(fields_get_calls, r.calls)
    /\ UNCHANGED <<config, PoolVars, record, gen>>

\* obj.<field> = value through the descriptor of the field: the value is
\* stored and the field marked updated; a read-only field refuses it
set_field(obj, field, value) ==
    IF field.readonly
    THEN [obj |-> obj, err |-> "ValidationError"]
    ELSE [obj |-> [obj EXCEPT
                     !.vals = Update(@, [f \in {field.name} |-> value]),
                     !.fields_updated = @ \cup {field.name}],
          err |-> ""]

\* an assignment to a field of the record held; the class has the
\* descriptor of a field once a _reset of any of its records has set it
SetField ==
    /\ Held
    /\ \E f \in proxies[record.cls].class_fields \cap FieldNames :
        \E value \in AssignVals[f] :
            LET r == set_field(record, proxies[record.cls].columns[f], value)
            IN  /\ record' = r.obj
                /\ last' = RecOp("set", record.cls, r.err, <<>>, <<>>)
                /\ fields_get_calls' = Tally(fields_get_calls, <<>>)
    /\ UNCHANGED <<config, PoolVars, gen>>

----------------------------------------------------------------------------
(* a server that stores what is written and does nothing else *)

\* the row such a server holds for the record after write(vals): the row
\* last read, with the written values in place
stored_row(obj, vals) == Update(obj.raw_data, vals)

\* what such a server answers to the refresh call of the record after
\* write(vals): the stored row to the read of a record with an id, and to
\* the default_get of a record without one the defaults it answered
\* before, which no write changes and which raw_data holds
StoredOutcomes(obj, vals) ==
    IF obj.id # 0
    THEN {Outcome("dict", stored_row(obj, vals))}
    ELSE {Outcome("dict", obj.raw_data)}

\* write of the record the caller holds; the refresh call is answered by
\* the storing server
WriteRecordStored ==
    /\ Held
    /\ ~record.raw_false
    /\ \E context \in Contexts, wout \in CallOutcomes,
          rout \in StoredOutcomes(record, write_vals(record.cls, record)) :
        LET r == write_record(record.cls, record, context, wout, rout)
        IN  /\ record' = r.obj
            /\ last' = RecOp("write", record.cls, r.err, r.calls,
                            Answers(r.calls, <<wout, rout>>))
            /\ fields_get_calls' = Tally(fields_get_calls, r.calls)
            /\ proxies' = setattr_class(record.cls, r.cls)
    /\ UNCHANGED <<config, IndexVars, gen>>

\* refresh of the record the caller holds; nothing was written since the
\* last refresh call
RefreshStored ==
    /\ Held
    /\ ~record.raw_false
    /\ \E context \in Contexts, out \in StoredOutcomes(record, EmptyDict) :
        LET r == refresh(record.cls, record, context, out)
        IN  /\ record' = r.obj
            /\ last' = RecOp("refresh", record.cls, r.err, r.calls,
                            Answers(r.calls, <<out>>))
            /\ fields_get_calls' = Tally(fields_get_calls, r.calls)
            /\ proxies' = setattr_class(record.cls, r.cls)
    /\ UNCHANGED <<config, IndexVars, gen>>

----------------------------------------------------------------------------
(* browse(list of ids): the generator *)

IdLists == UNION {[1..n -> IdSet] : n \in 0..MaxIds}

NoGen ==
    [p |-> NoProxy, ids |-> <<>>, context |-> "None", pos |-> 0,
     state |-> "none", fetched |-> 0]

\* a browse that fetches every record of the list at once
browse_list_eager(p, ids, context) ==
    [p |-> p, ids |-> ids, context |-> context, pos |-> 0,
     state |-> "active", fetched |-> Len(ids)]

\* OSV.browse(ids, context) with a list: the generator, nothing run yet
browse_list(p, ids, context) ==
    [p |-> p, ids |-> ids, context |-> context, pos |-> 0,
     state |-> "active", fetched |-> 0]

BrowseList ==
    /\ \E p \in 1..MaxProxies, ids \in IdLists, context \in Contexts :
            /\ Usable(p)
            /\ gen' = browse_list(p, ids, context)
            /\ last' = RecOp("browse_list", p, "", <<>>, <<>>)
            /\ fields_get_calls' = Tally(fields_get_calls, <<>>)
    /\ UNCHANGED <<config, PoolVars, record>>

\* next(generator): OSV._browse_generator runs up to its next yield
browse_generator(g, out) ==
    IF g.state = "done" \/ g.pos = Len(g.ids)
    THEN [gen |-> [g EXCEPT !.state = "done"], obj |-> NoRecord,
          err |-> "StopIteration", calls |-> <<>>, cls |-> {}]
    ELSE LET r == browse(g.p, g.ids[g.pos + 1], g.context, out)
         IN  [gen |-> IF r.err = ""
                      THEN [g EXCEPT !.pos = @ + 1,
                                     !.fetched = @ + Len(r.calls)]
                      ELSE [g EXCEPT !.state = "done",
                                     !.fetched = @ + Len(r.calls)],
              obj |-> r.obj, err |-> r.err, calls |-> r.calls,
              cls |-> r.cls]

GenNext ==
    /\ gen.state # "none"
    /\ \E out \in IF gen.state = "active" /\ gen.pos < Len(gen.ids)
                   THEN RefreshOutcomes(gen.p, gen.ids[gen.pos + 1])
                   ELSE {Outcome("ok", EmptyDict)} :
            LET r == browse_generator(gen, out)
            IN  /\ gen' = r.gen
                /\ record' = IF r.err = "" THEN r.obj ELSE record
                /\ last' = RecOp("next", gen.p, r.err, r.calls,
                                Answers(r.calls, <<out>>))
                /\ fields_get_calls' = Tally(fields_get_calls, r.calls)
                /\ proxies' = setattr_class(gen.p, r.cls)
    /\ UNCHANGED <<config, IndexVars>>

\* outcomes of the search call of an iteration: a failure or the list of
\* the ids found
SearchOutcomes ==
    {Outcome("fail", EmptyDict)} \cup {Outcome("list", ids) : ids \in IdLists}

\* OSV.__iter__(): the search forwarded with no filter, then the generator
\* over the ids answered, nothing of it run yet; g is the generator the
\* caller holds, kept when the search fails
osv_iter(p, g, out) ==
    LET r == rpc_method(proxies[p].name, "search", <<ArgNoFilter>>, NoKwargs)
    IN  IF r.err # ""
        THEN [gen |-> g, err |-> r.err, calls |-> r.calls]
        ELSE IF out.k = "fail"
        THEN [gen |-> g, err |-> "Error", calls |-> r.calls]
        ELSE [gen |-> browse_list(p, out.d, "None"), err |-> "",
              calls |-> r.calls]

\* iter(proxy)
IterProxy ==
    /\ \E p \in 1..MaxProxies, out \in SearchOutcomes :
            /\ Usable(p)
            /\ LET r == osv_iter(p, gen, out)
               IN  /\ gen' = r.gen
                   /\ last' = RecOp("iter", p, r.err, r.calls,
                                   Answers(r.calls, <<out>>))
                   /\ fields_get_calls' = Tally(fields_get_calls, r.calls)
    /\ UNCHANGED <<config, PoolVars, record>>

\* OSV.__len__(): one search call of the session, asking for the count
osv_len(p, out) ==
    [err |-> IF out.k = "fail" THEN "Error" ELSE "",
     calls |-> <<oerp_search_count(proxies[p].name)>>]

\* len(proxy)
LenProxy ==
    /\ \E p \in 1..MaxProxies, out \in CallOutcomes :
            /\ Usable(p)
            /\ LET r == osv_len(p, out)
               IN  /\ last' = RecOp("len", p, r.err, r.calls,
                                   Answers(r.calls, <<out>>))
                   /\ fields_get_calls' = Tally(fields_get_calls, r.calls)
    /\ UNCHANGED <<config, PoolVars, record, gen>>

----------------------------------------------------------------------------
(* Dynamic forwarding *)

Methods == {"search", "name_get"}
ArgLists == {<<>>, <<ArgTok("a")>>}
KwargsSet ==
    {NoKwargs, [context |-> "ctx"], [limit |-> "5"],
     [context |-> "ctx", limit |-> "5"]}

\* proxy.<method>(*args, **kwargs)
invoke(p, method, args, kwargs, out) ==
    LET r == rpc_method(proxies[p].name, method, args, kwargs)
    IN  [err |-> IF r.err # "" THEN r.err
                 ELSE IF out.k = "fail" THEN "Error" ELSE "",
         calls |-> r.calls]

Invoke ==
    /\ \E p \in 1..MaxProxies, method \in Methods, args \in ArgLists,
          kwargs \in KwargsSet, out \in CallOutcomes :
            /\ Usable(p)
            /\ LET r == invoke(p, method, args, kwargs, out)
               IN  /\ last' = InvokeOp(p, Input(method, args, kwargs),
                                       r.err, r.calls,
                                       Answers(r.calls, <<out>>))
                   /\ fields_get_calls' = Tally(fields_get_calls, r.calls)
    /\ UNCHANGED <<config, PoolVars, record, gen>>

----------------------------------------------------------------------------
(* Proxies constructed for any remote schema *)

\* the field names a remote schema may have, and the data of each
SchemaFieldNames == fields_reserved \cup FieldNames

AnyFieldData(f) ==
    CASE f = "id" -> FieldData("integer", TRUE)
      [] f = "name" -> FieldData("char", FALSE)
      [] f = "partner_id" -> FieldData("many2one", FALSE)
      [] OTHER -> FieldData("char", TRUE)

\* outcomes of a fields_get call: a failure, or any schema
AnyFieldsGetOutcomes ==
    {[ok |-> FALSE, schema |-> SchemaNoName]}
        \cup {[ok |-> TRUE, schema |-> [f \in fs |-> AnyFieldData(f)]] :
                fs \in SUBSET SchemaFieldNames}

\* the proxy a caller constructs by itself is kept apart from the pool's
Standalone == 1

\* OSV(oerp, osv_name): the caller constructs a proxy and keeps it in place
\* of the one it constructed before; at most MaxProxies constructions for
\* an entity
NewOSV ==
    /\ \E osv_name \in Names, out \in AnyFieldsGetOutcomes :
        LET calls == OSV_init_calls(osv_name)
            answer == IF out.ok THEN [k |-> "ok", d |-> out.schema]
                                ELSE [k |-> "fail", d |-> EmptyDict]
        IN  /\ fields_get_calls[osv_name] < MaxProxies
            /\ proxies' = [proxies EXCEPT
                              ![Standalone] = OSV_init(osv_name, out)]
            /\ nproxy' = Standalone
            /\ fields_get_calls' = Tally(fields_get_calls, calls)
            /\ fields_get_failed' =
                    IF out.ok THEN fields_get_failed
                    ELSE [fields_get_failed EXCEPT ![osv_name] = @ + 1]
            /\ last' = Op("osv_init", osv_name, FALSE, NoProxy, Standalone,
                          IF out.ok THEN "" ELSE "Error", calls, <<answer>>)
    /\ UNCHANGED <<config, factories_by_osv_name, factories_by_osv_class,
                   record, gen, invalidated>>

----------------------------------------------------------------------------
(* The specification *)

Init ==
    /\ config \in [compatible : BOOLEAN, auto_context : BOOLEAN]
    /\ factories_by_osv_name = [n \in Names |-> NoProxy]
    /\ factories_by_osv_class = [c \in 1..MaxProxies |-> NoProxy]
    /\ proxies = [p \in 1..MaxProxies |-> NoProxyObj]
    /\ nproxy = 0
    /\ record = NoRecord
    /\ gen = NoGen
    /\ fields_get_calls = [n \in Names |-> 0]
    /\ fields_get_failed = [n \in Names |-> 0]
    /\ invalidated = [n \in Names |-> FALSE]
    /\ last = Op("init", "", FALSE, NoProxy, NoProxy, "", <<>>, <<>>)

Next ==
    \/ PoolGet
    \/ PoolGetByClass
    \/ PoolDel
    \/ Browse
    \/ BrowseList
    \/ GenNext
    \/ IterProxy
    \/ LenProxy
    \/ Refresh
    \/ Reset
    \/ WriteRecord
    \/ UnlinkRecord
    \/ SetField
    \/ Invoke

Spec == Init /\ [][Next]_vars

\* The state once the caller has got the proxy of each entity from the pool
InitLoaded ==
    /\ config \in [compatible : BOOLEAN, auto_context : BOOLEAN]
    /\ factories_by_osv_name =
            [n \in Names |-> IF n = "res.partner" THEN 1 ELSE 2]
    /\ factories_by_osv_class =
            [c \in 1..MaxProxies |-> IF c <= 2 THEN c ELSE NoProxy]
    /\ proxies =
            [p \in 1..MaxProxies |->
                CASE p = 1 -> OSV_init("res.partner",
                                  [ok |-> TRUE,
                                   schema |-> RemoteSchema("res.partner")])
                  [] p = 2 -> OSV_init("res.log",
                                  [ok |-> TRUE,
                                   schema |-> RemoteSchema("res.log")])
                  [] OTHER -> NoProxyObj]
    /\ nproxy = 2
    /\ record = NoRecord
    /\ gen = NoGen
    /\ fields_get_calls = [n \in Names |-> 1]
    /\ fields_get_failed = [n \in Names |-> 0]
    /\ invalidated = [n \in Names |-> FALSE]
    /\ last = Op("get", "res.log", FALSE, NoProxy, 2, "",
                  OSV_init_calls("res.log"),
                  <<[k |-> "ok", d |-> EmptyDict]>>)

\* the pool alone
NextPool == PoolGet \/ PoolGetByClass \/ PoolDel
SpecPool == Init /\ [][NextPool]_vars

\* both entities cached, without auto_context, which is without effect on
\* the operations on records: they always pass a context
InitRecord == InitLoaded /\ ~config.auto_context

\* the state after construction without auto_context, which only a
\* forwarded method called without a context reads: fields_get is called
\* through execute and the record operations always pass a context
InitSession == Init /\ ~config.auto_context

\* the pool and the records of its proxies
NextSession ==
    \/ PoolGet
    \/ Browse
    \/ Refresh
    \/ Reset
    \/ WriteRecord
    \/ UnlinkRecord
SpecSession == InitSession /\ [][NextSession]_vars

\* the records of the two proxies
NextRecord ==
    \/ Browse
    \/ Refresh
    \/ Reset
    \/ WriteRecord
    \/ UnlinkRecord
    \/ SetField
SpecRecord == InitRecord /\ [][NextRecord]_vars

\* browsing lists of ids and iterating over a proxy
NextGen == BrowseList \/ IterProxy \/ GenNext
SpecGen == InitLoaded /\ [][NextGen]_vars

\* forwarded methods and the count of a proxy
NextInvoke == Invoke \/ LenProxy
SpecInvoke == InitLoaded /\ [][NextInvoke]_vars

\* proxies constructed outside the pool, for any remote schema
NextSchema == NewOSV
SpecSchema == Init /\ [][NextSchema]_vars

\* one record at a time against a server that stores what is written
NextStore ==
    \/ Browse
    \/ SetField
    \/ Reset
    \/ WriteRecordStored
    \/ RefreshStored
SpecStore == InitRecord /\ [][NextStore]_vars

----------------------------------------------------------------------------
(* Properties *)

Cached(n) == factories_by_osv_name[n] # NoProxy

\* the proxy can be got from the pool, by a name or by a class
Reachable(p) ==
    \/ \E n \in Names : factories_by_osv_name[n] = p
    \/ \E c \in 1..MaxProxies : factories_by_osv_class[c] = p

\* C1: a get without refresh of a cached name returns the cached proxy; a get
\* with refresh of a cached name returns another proxy, and the one cached
\* before can no longer be got from the pool.
C1_GetCachesAndRefreshEvicts ==
    (last.op = "get" /\ last.err = "" /\ last.prev # NoProxy) =>
        IF last.flag
        THEN last.res # last.prev /\ ~Reachable(last.prev)
        ELSE last.res = last.prev

\* C2: the proxy cached under a name is also the one registered under its
\* own generated class.
C2_IndicesAgree ==
    \A n \in Names :
        Cached(n) =>
            factories_by_osv_class[ClassOf(factories_by_osv_name[n])]
                = factories_by_osv_name[n]

\* C3: get_by_class of a class that is not the class of a proxy cached under
\* a name fails with a lookup error.
C3_StaleClassLookupFails ==
    (/\ last.op = "get_by_class"
     /\ \A n \in Names :
            ~Cached(n) \/ ClassOf(factories_by_osv_name[n]) # last.prev)
        => last.err = "KeyError"

\* the proxies constructed for an entity, failed constructions included
Constructed(n) ==
    {p \in 1..MaxProxies : proxies[p].state # "none" /\ proxies[p].name = n}

\* C4: every proxy construction issues one fields_get call and nothing else
\* issues any; as long as an entity is neither refreshed nor removed, the
\* gets, browses, refreshes, resets, writes and unlinks issue one fields_get
\* call that succeeds for it, at the get that caches its proxy, and none
\* before.
C4_SingleIntrospection ==
    \A n \in Names :
        /\ fields_get_calls[n] = Cardinality(Constructed(n))
        /\ ~invalidated[n] =>
                fields_get_calls[n] - fields_get_failed[n]
                    = IF Cached(n) THEN 1 ELSE 0

C4_Witness ==
    /\ last.op \in {"write", "unlink", "refresh"}
    /\ last.err = ""
    /\ record.id # 0
    /\ ~invalidated[last.name]
    /\ Cached(last.name)
    /\ fields_get_calls[last.name] = 1
    /\ fields_get_failed[last.name] = 0

RefreshingOps == {"browse", "refresh", "write", "next"}

\* C5: once a refresh has completed, no field of the record is marked
\* updated and raw_data has a key for every column of the class.
C5_RefreshFillsEveryColumn ==
    (last.op \in RefreshingOps /\ last.err = "") =>
        /\ record.fields_updated = {}
        /\ DOMAIN proxies[record.cls].columns \subseteq DOMAIN record.raw_data

\* the write call of the last operation was issued and failed
WriteCallFailed(l) ==
    /\ l.op = "write"
    /\ Len(l.calls) >= 1
    /\ l.answers[1].k = "fail"

\* C6: when the write call fails, the error is raised, no read follows and
\* the record is what it was: fields updated, values and raw_data.
C6_FailedWriteKeepsRecord ==
    [][WriteCallFailed(last') =>
            /\ last'.err = "Error"
            /\ \A i \in DOMAIN last'.calls : last'.calls[i].method = "write"
            /\ record' = record]_vars

C6_Witness ==
    /\ WriteCallFailed(last)
    /\ record.fields_updated # {}
    /\ \E f \in record.fields_updated \cap DOMAIN record.raw_data :
            record.vals[f] # record.raw_data[f]

\* the payload of the write call of the last operation
Payload(l) == l.calls[1].args[2].d

WriteCallIssued(l) == l.op = "write" /\ Len(l.calls) >= 1

\* C7: the write payload of a many2one field is never an (id, label) pair;
\* for a field holding a pair it is the id of the pair.
C7_Many2OneSentAsId ==
    [][WriteCallIssued(last') =>
            \A f \in DOMAIN Payload(last') :
                proxies[record.cls].columns[f].type = "many2one" =>
                    /\ Payload(last')[f].t # "pair"
                    /\ record.vals[f].t = "pair" =>
                            Payload(last')[f] = VInt(record.vals[f].i)]_vars

C7_Witness ==
    /\ WriteCallIssued(last)
    /\ "partner_id" \in DOMAIN Payload(last)
    /\ Payload(last)["partner_id"] = VInt(9)

\* the id the last pull of the generator asked for
PulledId == IF last.err = "" THEN gen.ids[gen.pos] ELSE gen.ids[gen.pos + 1]

\* the call fetches the record with this id
Fetches(call, id) ==
    IF id # 0
    THEN call.method = "read" /\ call.args[1].ids = <<id>>
    ELSE call.method = "default_get"

\* C8: browse(list) issues no call; every pull that does not find the list
\* exhausted issues one call, for the id pulled; after k records yielded k
\* calls have been issued, and a list is never fetched beyond its length.
C8_LazyBrowse ==
    /\ last.op = "browse_list" => last.calls = <<>> /\ gen.fetched = 0
    /\ gen.state = "active" => gen.fetched = gen.pos
    /\ gen.state = "done" => gen.fetched \in {gen.pos, gen.pos + 1}
    /\ gen.fetched <= Len(gen.ids)
    /\ last.op = "next" =>
            IF last.err = "StopIteration"
            THEN last.calls = <<>>
            ELSE Len(last.calls) = 1 /\ Fetches(last.calls[1], PulledId)

C8_Witness ==
    /\ last.op = "next"
    /\ last.err = ""
    /\ gen.state = "active"
    /\ Len(gen.ids) = 2
    /\ gen.pos = 1
    /\ gen.fetched = 1

\* C9: in compatibility mode a forwarded method given a keyword argument
\* raises the named-parameters error and issues no call; given positional
\* arguments only it issues one execute call for its entity and method.
C9_CompatibleForwarding ==
    (last.op = "invoke" /\ config.compatible) =>
        IF DOMAIN last.inp.kwargs # {}
        THEN last.err = "RPCError:NamedParameters" /\ last.calls = <<>>
        ELSE last.calls =
                <<execute(last.name, last.inp.method, last.inp.args)>>

C9_Witness ==
    /\ last.op = "invoke"
    /\ config.compatible
    /\ "limit" \in DOMAIN last.inp.kwargs
    /\ last.err = "RPCError:NamedParameters"

\* C10: a refresh of a record with an id whose read answers False, [] or
\* [False] raises the not-found error.
C10_EmptyReadIsNotFound ==
    (/\ last.op \in {"browse", "refresh"}
     /\ Len(last.calls) = 1
     /\ last.calls[1].method = "read"
     /\ last.answers[1].k \in {"false", "empty", "falseentry"})
        => last.err = "RPCError:NotFound"


\* the value the caller last assigned to field f of obj, as the server is
\* to hold it: the related id for a many2one field
Assigned(obj, f) ==
    LET v == obj.vals[f]
    IN  IF proxies[obj.cls].columns[f].type = "many2one" /\ v.t = "pair"
        THEN VInt(v.i)
        ELSE v

\* C11: against a server that stores what is written and does nothing
\* else, a successful write leaves in raw_data, for every field that was
\* in fields_updated, the value last assigned (the related id for a
\* many2one), and a refresh that follows leaves raw_data as it is
C11_WriteThenReadConsistent ==
    [][/\ (last'.op = "write" /\ last'.err = "")
            => \A f \in record.fields_updated :
                    /\ f \in DOMAIN record'.raw_data
                    /\ record'.raw_data[f] = Assigned(record, f)
       /\ (last'.op = "refresh" /\ last'.err = "")
            => record'.raw_data = record.raw_data]_vars

\* C12: a reset issues no remote call, leaves raw_data as it is, empties
\* fields_updated and gives every field held in raw_data its raw_data
\* value; a second reset changes nothing more
C12_ResetIsLocalAndIdempotent ==
    [][last'.op = "reset"
        => /\ last'.calls = <<>>
           /\ fields_get_calls' = fields_get_calls
           /\ record'.raw_data = record.raw_data
           /\ record'.raw_false = record.raw_false
           /\ record'.fields_updated = {}
           /\ \A f \in DOMAIN proxies[record.cls].columns :
                f \in DOMAIN record.raw_data
                    => /\ f \in DOMAIN record'.vals
                       /\ record'.vals[f] = record.raw_data[f]
           /\ last.op = "reset" => record' = record]_vars

\* a reset has put back the value read of a field that had been assigned
C12_Witness ==
    /\ last.op = "reset"
    /\ last.err = ""
    /\ last.flag
    /\ record.fields_updated = {}
    /\ "partner_id" \in DOMAIN record.raw_data
    /\ record.raw_data["partner_id"] = VPair(7, "Acme Corp")
    /\ record.vals["partner_id"] = VPair(7, "Acme Corp")


\* C13: when the introspection of a get fails the error reaches the
\* caller and both indices of the pool are as they were before the call
C13_FailedGetCachesNothing ==
    [][(last'.op = "get" /\ Len(last'.answers) = 1
            /\ last'.answers[1].k = "fail")
        => /\ last'.err = "Error"
           /\ factories_by_osv_name' = factories_by_osv_name
           /\ factories_by_osv_class' = factories_by_osv_class]_vars

\* a get with refresh of a cached entity has failed and the entity is
\* still cached as the proxy it was
C13_Witness ==
    /\ last.op = "get"
    /\ last.err = "Error"
    /\ last.flag
    /\ last.prev # NoProxy
    /\ factories_by_osv_name[last.name] = last.prev
    /\ factories_by_osv_class[ClassOf(last.prev)] = last.prev
    /\ fields_get_failed[last.name] = 1


\* the keyword arguments of the one call of a forwarded method
SentKwargs == last.calls[1].kwargs

\* C14: in standard mode a forwarded method issues one execute_kw call
\* with the caller's positional arguments and every keyword argument as
\* passed; a context keyword holding the ambient context is added when
\* auto_context is set and the caller passed no context, and in no other
\* case
C14_StandardForwarding ==
    (last.op = "invoke" /\ ~config.compatible) =>
        /\ Len(last.calls) = 1
        /\ last.calls[1].fn = "execute_kw"
        /\ last.calls[1].model = last.name
        /\ last.calls[1].method = last.inp.method
        /\ last.calls[1].args = last.inp.args
        /\ \A k \in DOMAIN last.inp.kwargs :
                k \in DOMAIN SentKwargs /\ SentKwargs[k] = last.inp.kwargs[k]
        /\ IF config.auto_context /\ "context" \notin DOMAIN last.inp.kwargs
           THEN /\ DOMAIN SentKwargs = DOMAIN last.inp.kwargs \cup {"context"}
                /\ SentKwargs["context"] = AmbientContext
           ELSE DOMAIN SentKwargs = DOMAIN last.inp.kwargs

\* with auto_context a method was forwarded with a limit and no context,
\* and the call carries the limit and the ambient context
C14_Witness ==
    /\ last.op = "invoke"
    /\ ~config.compatible
    /\ config.auto_context
    /\ DOMAIN last.inp.kwargs = {"limit"}
    /\ Len(last.calls) = 1
    /\ SentKwargs = [limit |-> "5", context |-> AmbientContext]


\* raw_data as a refresh answered d is to leave it: d itself for a record
\* with an id, and for a record without one d over False for every column
Snapshot(obj, d) ==
    IF obj.id # 0
    THEN d
    ELSE [f \in DOMAIN proxies[obj.cls].columns |->
            IF f \in DOMAIN d THEN d[f] ELSE VFalse]

\* C15: a write_record that succeeds has issued exactly two calls, first
\* the one write call for the id of the record and after it the one
\* refresh call; on return fields_updated is empty and raw_data is what
\* that refresh call answered
C15_WriteThenRefresh ==
    (last.op = "write" /\ last.err = "") =>
        /\ Len(last.calls) = 2
        /\ last.calls[1].method = "write"
        /\ last.calls[1].args[1].ids = <<record.id>>
        /\ last.calls[2].method # "write"
        /\ Fetches(last.calls[2], record.id)
        /\ record.fields_updated = {}
        /\ ~record.raw_false
        /\ record.raw_data = Snapshot(record, last.answers[2].d)

\* a write of a record with an id that sent an updated field has succeeded
\* and its refresh read answered another value than the one sent
C15_Witness ==
    /\ last.op = "write"
    /\ last.err = ""
    /\ record.id = 42
    /\ Len(last.calls) = 2
    /\ last.calls[2].method = "read"
    /\ Payload(last) = [name |-> VText("Zed")]
    /\ record.raw_data["name"] = VText("Acme")


\* C16: the payload of the write call of write_record has exactly the
\* fields that are in fields_updated when write_record is called
C16_PayloadIsFieldsUpdated ==
    [][WriteCallIssued(last')
        => DOMAIN Payload(last') = record.fields_updated]_vars


\* a record without an id was refreshed, by browse(0) or by a refresh of
\* the record held
RefreshedDraft ==
    \/ last.op = "browse" /\ last.inp.args[1].ids = <<0>>
    \/ last.op = "refresh" /\ record.id = 0

\* C17: a refresh of a record without an id issues one default_get call
\* and no read; when it succeeds raw_data has an entry for every column,
\* the default answered where one was and False elsewhere, and
\* fields_updated is empty
C17_DraftRefreshUsesDefaults ==
    RefreshedDraft =>
        /\ Len(last.calls) = 1
        /\ last.calls[1].method = "default_get"
        /\ last.calls[1].args[1].fs = DOMAIN proxies[last.res].columns
        /\ last.err = "" =>
            /\ DOMAIN record.raw_data = DOMAIN proxies[last.res].columns
            /\ \A f \in DOMAIN record.raw_data :
                    record.raw_data[f] =
                        IF f \in DOMAIN last.answers[1].d
                        THEN last.answers[1].d[f]
                        ELSE VFalse
            /\ record.fields_updated = {}

\* a record without an id was browsed for an entity with no name field,
\* default_get answered the partner only, and raw_data holds the partner
\* answered and False for name
C17_Witness ==
    /\ RefreshedDraft
    /\ last.op = "browse"
    /\ last.err = ""
    /\ record.id = 0
    /\ record.cls = last.res
    /\ proxies[record.cls].name = "res.log"
    /\ DOMAIN last.answers[1].d = {"partner_id"}
    /\ record.raw_data =
            [name |-> VFalse, partner_id |-> VPair(7, "Acme Corp")]


\* the operations on a record that call the server
RecordCallOps == {"browse", "refresh", "write", "unlink"}

\* the call passes a context as its last positional argument and no
\* keyword argument, through execute
PositionalContext(call) ==
    /\ call.fn = "execute"
    /\ DOMAIN call.kwargs = {}
    /\ Len(call.args) >= 1
    /\ call.args[Len(call.args)].k = "ctx"

\* the call passes a context as the keyword argument context and not as a
\* positional argument, through execute_kw
KeywordContext(call) ==
    /\ call.fn = "execute_kw"
    /\ "context" \in DOMAIN call.kwargs
    /\ \A i \in 1..Len(call.args) : call.args[i].k # "ctx"

\* C20: in compatible mode browse, refresh, write_record and unlink_record
\* pass the context positionally in every call they issue and never raise
\* the named-parameters error; in standard mode they pass it as the
\* keyword argument context through execute_kw
C20_ContextPassingByMode ==
    last.op \in RecordCallOps =>
        /\ last.err # "RPCError:NamedParameters"
        /\ \A i \in 1..Len(last.calls) :
                IF config.compatible
                THEN PositionalContext(last.calls[i])
                ELSE KeywordContext(last.calls[i])

\* in compatible mode an unlink has issued its call, and a write both its
\* calls
C20_Witness ==
    /\ config.compatible
    /\ last.err = ""
    /\ \/ last.op = "unlink" /\ Len(last.calls) = 1
       \/ last.op = "write" /\ Len(last.calls) = 2
    /\ \A i \in 1..Len(last.calls) : PositionalContext(last.calls[i])


\* C18: removing a cached entity takes its name out of the names of the
\* pool, makes the pool one shorter and leaves the other names with the
\* proxies they had; a get of a name that is not in the pool introspects
\* with one fields_get call and returns a proxy that did not exist before
C18_RemoveEvicts ==
    [][/\ (last'.op = "del" /\ last'.err = "")
            => /\ last'.name \in pool_iter
               /\ last'.name \notin pool_iter'
               /\ pool_len' = pool_len - 1
               /\ \A n \in Names \ {last'.name} :
                    factories_by_osv_name'[n] = factories_by_osv_name[n]
       /\ (last'.op = "get" /\ last'.err = "" /\ last'.prev = NoProxy)
            => /\ last'.calls = <<execute(last'.name, "fields_get", <<>>)>>
               /\ fields_get_calls'[last'.name]
                    = fields_get_calls[last'.name] + 1
               /\ proxies[last'.res].state = "none"
               /\ proxies'[last'.res].state = "ok"
               /\ \A n \in Names : factories_by_osv_name[n] # last'.res
               /\ factories_by_osv_name'[last'.name] = last'.res]_vars

\* an entity was got, removed and got again: it is cached as the second
\* proxy constructed for it, after two fields_get calls
C18_Witness ==
    /\ last.op = "get"
    /\ last.err = ""
    /\ last.prev = NoProxy
    /\ invalidated[last.name]
    /\ last.res = 2
    /\ proxies[1].name = last.name
    /\ proxies[1].state = "ok"
    /\ fields_get_calls[last.name] = 2
    /\ pool_iter = {last.name}
    /\ pool_len = 1


\* the names no field descriptor is generated for
ReservedNames == {"id", "__oerp__", "__osv__", "__data__"}

\* C19: the columns generated from a remote schema have no reserved name,
\* have every other field of the remote schema with its type and
\* read-only flag, have nothing else but name, and always have name: the
\* remote one when the schema has it, else a read-only text field
C19_GeneratedSchema ==
    (last.op = "osv_init" /\ last.err = "") =>
        LET remote == last.answers[1].d
            columns == proxies[last.res].columns
        IN  /\ DOMAIN columns \cap ReservedNames = {}
            /\ \A f \in DOMAIN remote \ ReservedNames :
                    /\ f \in DOMAIN columns
                    /\ columns[f].name = f
                    /\ columns[f].type = remote[f].type
                    /\ columns[f].readonly = remote[f].readonly
            /\ DOMAIN columns \subseteq DOMAIN remote \cup {"name"}
            /\ "name" \in DOMAIN columns
            /\ "name" \notin DOMAIN remote
                    => columns["name"] =
                        [name |-> "name", type |-> "text", readonly |-> TRUE]

\* a proxy was constructed for a schema with two reserved names and no
\* name: its columns are the partner and the read-only text name
C19_Witness ==
    /\ last.op = "osv_init"
    /\ last.err = ""
    /\ DOMAIN last.answers[1].d = {"id", "__data__", "partner_id"}
    /\ DOMAIN proxies[last.res].columns = {"name", "partner_id"}
    /\ proxies[last.res].columns["name"].readonly

====
